---------------------------- MODULE Spec2Model ----------------------------
(***************************************************************************)
(* A model of list_tokens.py: the region locator (find_vocab_section),     *)
(* the token segmenter (find_next_token), the identifier inferrer          *)
(* (analyze_token) and the driver loop (list_tokens).                      *)
(*                                                                         *)
(* Bytes are the integers 0..255.  A buffer is a sequence of bytes; the    *)
(* source's offsets are 0-based, so offset o is element o+1 of the         *)
(* sequence.                                                               *)
(***************************************************************************)
EXTENDS Integers, Sequences, FiniteSets, TLC

VARIABLES
    mm,           \* the mapped file contents
    num_tokens,   \* list_tokens' parameter, overwritten by the window
    skip,         \* list_tokens' parameter, overwritten by the window
    window,       \* list_tokens' parameter
    pc,           \* the position of list_tokens
    file_open,    \* the file object f is open
    mm_open,      \* the mapping mm exists and is not closed
    vocab_start,  \* region start
    vocab_end,    \* region end
    pos,          \* list_tokens' cursor
    count,        \* records displayed
    skipped,      \* records skipped
    scan_pos,     \* find_next_token's local cursor (its `pos`)
    token,        \* the bytes find_next_token returned last, or None
    ids,          \* analyze_token's result for the last displayed record
    ids_at,       \* for each element of ids, the offset i it was decoded at
    probed,       \* the offsets i at which analyze_token unpacked four bytes
    found         \* offset and length of every record find_next_token returned

vars == <<mm, num_tokens, skip, window, pc, file_open, mm_open, vocab_start,
          vocab_end, pos, count, skipped, scan_pos, token, ids, ids_at, probed,
          found>>

\* Python's None, as a value of the type of the variable that holds it: no
\* offset is negative and no record is empty.
NoPos == -1
NoToken == << >>

Min(a, b) == IF a <= b THEN a ELSE b
Max(a, b) == IF a >= b THEN a ELSE b

(***************************************************************************)
(* Python's bytes operations.                                              *)
(***************************************************************************)
At(b, o) == b[o + 1]

\* b[i:j] for 0 <= i: the slice is clamped to the buffer.
Slice(b, i, j) == SubSeq(b, i + 1, Min(j, Len(b)))

\* b[i:i+len(sub)] == sub
MatchAt(b, sub, i) ==
    /\ i + Len(sub) <= Len(b)
    /\ \A k \in 1..Len(sub) : b[i + k] = sub[k]

SetMin(S) == CHOOSE x \in S : \A y \in S : x <= y

\* b.find(sub, lo, hi): the lowest i >= lo with b[i:i+len(sub)] == sub and
\* i + len(sub) <= min(hi, len(b)); -1 when there is none.
Find(b, sub, lo, hi) ==
    CHOOSE i \in
        { IF hits = {} THEN -1 ELSE SetMin(hits) :
            hits \in { { j \in lo..(Min(hi, Len(b)) - Len(sub)) :
                           MatchAt(b, sub, j) } } } :
        TRUE

(***************************************************************************)
(* Program constants.                                                      *)
(***************************************************************************)
special_tokens ==
    << <<60, 112, 97, 100, 62>>,                                 \* <pad>
       <<60, 101, 111, 115, 62>>,                                \* <eos>
       <<60, 117, 110, 107, 62>>,                                \* <unk>
       <<60, 101, 110, 100, 95, 111, 102, 95, 116, 117, 114, 110, 62>> >>
                                                                 \* <end_of_turn>
boundary == <<226, 150, 129>>
NullRun == 100
LookAhead == 100
IdCeiling == 100000
IdReach == 8

(***************************************************************************)
(* find_vocab_section                                                      *)
(***************************************************************************)
\* The offsets appended to special_positions.
special_positions(b) ==
    { Find(b, special_tokens[t], 0, Len(b)) : t \in 1..Len(special_tokens) }
        \ {-1}

\* NullScanBody, leaving the loop when the run reaches the threshold
\* instead of when it exceeds it.
NullScanBody_at_threshold(b, st) ==
    IF st.stop THEN st
    ELSE IF ~(st.pos < Len(b)) THEN [st EXCEPT !.stop = TRUE]
    ELSE IF Slice(b, st.pos, st.pos + 1) = <<0>>
         THEN IF st.null_count + 1 >= NullRun
              THEN [st EXCEPT !.null_count = @ + 1, !.stop = TRUE]
              ELSE [st EXCEPT !.null_count = @ + 1, !.pos = @ + 1]
         ELSE [st EXCEPT !.null_count = 0, !.pos = @ + 1]

\* One pass through the while loop of lines 51-58, its test included; stop
\* is set when the loop is left.
NullScanBody(b, st) ==
    IF st.stop THEN st
    ELSE IF ~(st.pos < Len(b)) THEN [st EXCEPT !.stop = TRUE]
    ELSE IF Slice(b, st.pos, st.pos + 1) = <<0>>
         THEN IF st.null_count + 1 > NullRun
              THEN [st EXCEPT !.null_count = @ + 1, !.stop = TRUE]
              ELSE [st EXCEPT !.null_count = @ + 1, !.pos = @ + 1]
         ELSE [st EXCEPT !.null_count = 0, !.pos = @ + 1]

\* n passes through the loop, one after the other: the first half of them,
\* then the rest from the state mid the first half has reached.
RECURSIVE NullScanPasses(_, _, _)
NullScanPasses(b, st, n) ==
    IF st.stop \/ n = 0 THEN st
    ELSE IF n = 1 THEN NullScanBody(b, st)
    ELSE CHOOSE last \in { NullScanPasses(b, mid, n - n \div 2) :
                             mid \in { NullScanPasses(b, st, n \div 2) } } :
             TRUE

\* Lines 49-58: the value of pos when the loop has ended.  The loop ends
\* within len(mm) + 1 passes, since each pass that does not leave it adds
\* one to pos.
NullScan(b, start) ==
    NullScanPasses(b, [pos |-> start, null_count |-> 0, stop |-> FALSE],
                   Len(b) + 1).pos

\* find_vocab_section, taking the first listed special token that occurs
\* instead of the lowest offset.
find_vocab_section_first_listed(b) ==
    CHOOSE region \in
        { <<start, Min(Len(b), NullScan(b, start))>> :
            start \in
              { IF listed # {}
                THEN Find(b, special_tokens[SetMin(listed)], 0, Len(b))
                ELSE 0 :
                  listed \in { { t \in 1..Len(special_tokens) :
                      Find(b, special_tokens[t], 0, Len(b)) # -1 } } } } :
        TRUE

\* Lines 45-46
vocab_start_of(positions) ==
    IF positions # {} THEN SetMin(positions) ELSE 0

find_vocab_section(b) ==
    CHOOSE region \in
        { <<start, Min(Len(b), NullScan(b, start))>> :
            start \in { vocab_start_of(positions) :
                          positions \in { special_positions(b) } } } :
        TRUE

(***************************************************************************)
(* find_next_token                                                         *)
(***************************************************************************)
\* ContentBody, looking ahead without regard to the region end.
ContentBody_past_end(b, next_pos, end, st) ==
    IF st.stop THEN st
    ELSE IF ~(st.content_end < Min(Len(b), next_pos + LookAhead))
         THEN [st EXCEPT !.stop = TRUE]
    ELSE IF \/ Slice(b, st.content_end, st.content_end + 3) = boundary
            \/ Slice(b, st.content_end, st.content_end + 1) = <<0>>
         THEN [st EXCEPT !.stop = TRUE]
    ELSE [st EXCEPT
            !.found_content = @ \/ (/\ 32 <= At(b, st.content_end)
                                    /\ At(b, st.content_end) <= 126),
            !.content_end = @ + 1]

\* ContentBody, ending the content at a marker only.
ContentBody_through_null(b, next_pos, end, st) ==
    IF st.stop THEN st
    ELSE IF ~(st.content_end < Min(end, next_pos + LookAhead))
         THEN [st EXCEPT !.stop = TRUE]
    ELSE IF Slice(b, st.content_end, st.content_end + 3) = boundary
         THEN [st EXCEPT !.stop = TRUE]
    ELSE [st EXCEPT
            !.found_content = @ \/ (/\ 32 <= At(b, st.content_end)
                                    /\ At(b, st.content_end) <= 126),
            !.content_end = @ + 1]

\* One pass through the inner while loop of lines 81-87, its test included.
ContentBody(b, next_pos, end, st) ==
    IF st.stop THEN st
    ELSE IF ~(st.content_end < Min(end, next_pos + LookAhead))
         THEN [st EXCEPT !.stop = TRUE]
    ELSE IF \/ Slice(b, st.content_end, st.content_end + 3) = boundary
            \/ Slice(b, st.content_end, st.content_end + 1) = <<0>>
         THEN [st EXCEPT !.stop = TRUE]
    ELSE [st EXCEPT
            !.found_content = @ \/ (/\ 32 <= At(b, st.content_end)
                                    /\ At(b, st.content_end) <= 126),
            !.content_end = @ + 1]

\* n passes through the loop, one after the other: the first half of them,
\* then the rest from the state mid the first half has reached.
RECURSIVE ContentPasses(_, _, _, _, _)
ContentPasses(b, next_pos, end, st, n) ==
    IF st.stop \/ n = 0 THEN st
    ELSE IF n = 1 THEN ContentBody(b, next_pos, end, st)
    ELSE CHOOSE last \in
             { ContentPasses(b, next_pos, end, mid, n - n \div 2) :
                 mid \in { ContentPasses(b, next_pos, end, st, n \div 2) } } :
             TRUE

\* Lines 76-87 for the marker at p: the final content_end and found_content.
\* The loop ends within LookAhead + 1 passes.
Span(b, p, end) ==
    ContentPasses(b, p + 3, end,
                  [content_end |-> p + 3, found_content |-> FALSE,
                   stop |-> FALSE],
                  LookAhead + 1)

\* Line 89
TokenContent(b, p, end) == Slice(b, p, Span(b, p, end).content_end)

\* Accepts, without the test for printable content.
Accepts_any_content(b, p, end) == Len(TokenContent(b, p, end)) > 3

\* Line 90
Accepts(b, p, end) ==
    Span(b, p, end).found_content /\ Len(TokenContent(b, p, end)) > 3

(***************************************************************************)
(* analyze_token                                                           *)
(***************************************************************************)
\* struct.unpack of four bytes, kept as two 16-bit halves: the value is
\* hi * 65536 + lo.
UnpackLE(w) == [hi |-> w[4] * 256 + w[3], lo |-> w[2] * 256 + w[1]]
UnpackBE(w) == [hi |-> w[1] * 256 + w[2], lo |-> w[3] * 256 + w[4]]

\* 0 < v < 100000
Plausible(v) ==
    /\ v.hi <= IdCeiling \div 65536
    /\ 0 < v.hi * 65536 + v.lo
    /\ v.hi * 65536 + v.lo < IdCeiling

IntOf(v) == v.hi * 65536 + v.lo

\* Line 101 and the try of lines 102-110: whether the four bytes at i are
\* unpacked.  A slice shorter than four bytes makes struct.unpack raise, and
\* the except clause goes on to the next i.
Unpacks(b, i, p) == i + 4 <= p /\ Len(Slice(b, i, i + 4)) = 4

\* ProbeAt, appending the big-endian value whatever the little-endian one.
ProbeAt_both(b, i, p) ==
    IF Unpacks(b, i, p)
    THEN LET val_le == UnpackLE(Slice(b, i, i + 4))
             val_be == UnpackBE(Slice(b, i, i + 4))
         IN  (IF Plausible(val_le)
              THEN << [val |-> IntOf(val_le), endian |-> "LE", at |-> i] >>
              ELSE << >>)
             \o
             (IF Plausible(val_be)
              THEN << [val |-> IntOf(val_be), endian |-> "BE", at |-> i] >>
              ELSE << >>)
    ELSE << >>

\* The body of the for loop at offset i: the candidates appended there.
ProbeAt(b, i, p) ==
    IF Unpacks(b, i, p)
    THEN LET val_le == UnpackLE(Slice(b, i, i + 4))
             val_be == UnpackBE(Slice(b, i, i + 4))
         IN  (IF Plausible(val_le)
              THEN << [val |-> IntOf(val_le), endian |-> "LE", at |-> i] >>
              ELSE << >>)
             \o
             (IF Plausible(val_be) /\ val_be # val_le
              THEN << [val |-> IntOf(val_be), endian |-> "BE", at |-> i] >>
              ELSE << >>)
    ELSE << >>

\* for i in range(lo, p): the candidates, in the order they are appended.
RECURSIVE ProbeRange(_, _, _)
ProbeRange(b, i, p) ==
    IF i >= p THEN << >> ELSE ProbeAt(b, i, p) \o ProbeRange(b, i + 1, p)

\* for i in range(lo, p): the offsets whose four bytes are unpacked.
RECURSIVE UnpackedRange(_, _, _)
UnpackedRange(b, i, p) ==
    IF i >= p THEN << >>
    ELSE (IF Unpacks(b, i, p) THEN <<i>> ELSE << >>)
         \o UnpackedRange(b, i + 1, p)

\* FirstProbe, without the region start.
FirstProbe_any_start(p, start) == Max(0, p - IdReach)

\* Line 100
FirstProbe(p, start) == Max(start, p - IdReach)

analyze_token(b, p, start) == ProbeRange(b, FirstProbe(p, start), p)

(***************************************************************************)
(* The files the model is run on: concatenations of a few pieces.          *)
(***************************************************************************)
Rep(x, n) == [k \in 1..n |-> x]

RECURSIVE Concat(_, _)
Concat(pieces, f) ==
    IF f = << >> THEN << >> ELSE pieces[Head(f)] \o Concat(pieces, Tail(f))

Buffers(pieces, n) ==
    { Concat(pieces, f) :
        f \in UNION { [1..k -> 1..Len(pieces)] : k \in 0..n } }

MaxPieces == 3
MaxCount == 1

\* "hello"
Hello == <<104, 101, 108, 108, 111>>

FilePieces ==
    << boundary, boundary \o Hello, <<0>>, special_tokens[1],
       Rep(0, NullRun + 1) >>

\* <<skip, window>> as given on the command line
SkipWindow == { <<0, 0>>, <<1, 0>>, <<2, 2>>, <<1000, 150>> }

(***************************************************************************)
(* list_tokens                                                             *)
(***************************************************************************)
\* The locals and results before list_tokens has assigned them.
Unset ==
    /\ vocab_start = 0
    /\ vocab_end = 0
    /\ pos = 0
    /\ count = 0
    /\ skipped = 0
    /\ scan_pos = 0
    /\ token = NoToken
    /\ ids = << >>
    /\ ids_at = << >>
    /\ probed = << >>
    /\ found = << >>

Init ==
    /\ mm \in Buffers(FilePieces, MaxPieces)
    /\ num_tokens \in 0..MaxCount
    /\ \E sw \in SkipWindow : skip = sw[1] /\ window = sw[2]
    /\ pc = "start"
    /\ file_open = FALSE
    /\ mm_open = FALSE
    /\ Unset

\* Lines 119-120: open the file and map it.  mmap refuses an empty file; the
\* with statement then closes f as the exception leaves the block.
Open ==
    /\ pc = "start"
    /\ IF Len(mm) = 0
       THEN /\ pc' = "raised"
            /\ UNCHANGED <<file_open, mm_open>>
       ELSE /\ pc' = "locate"
            /\ file_open' = TRUE
            /\ mm_open' = TRUE
    /\ UNCHANGED <<mm, num_tokens, skip, window, vocab_start, vocab_end, pos,
                   count, skipped, scan_pos, token, ids, ids_at, probed, found>>

\* Line 121
Locate ==
    /\ pc = "locate"
    /\ LET region == find_vocab_section(mm)
       IN  vocab_start' = region[1] /\ vocab_end' = region[2]
    /\ pc' = "window"
    /\ UNCHANGED <<mm, num_tokens, skip, window, file_open, mm_open, pos,
                   count, skipped, scan_pos, token, ids, ids_at, probed, found>>

\* Window, moving the skip back by the whole window.
Window_whole ==
    /\ pc = "window"
    /\ IF window > 0
       THEN /\ skip' = Max(0, skip - window)
            /\ num_tokens' = window
       ELSE UNCHANGED <<skip, num_tokens>>
    /\ pos' = vocab_start
    /\ count' = 0
    /\ skipped' = 0
    /\ pc' = "loop"
    /\ UNCHANGED <<mm, window, file_open, mm_open, vocab_start, vocab_end,
                   scan_pos, token, ids, ids_at, probed, found>>

\* Lines 123-136
Window ==
    /\ pc = "window"
    /\ IF window > 0
       THEN /\ skip' = Max(0, skip - window \div 2)
            /\ num_tokens' = window
       ELSE UNCHANGED <<skip, num_tokens>>
    /\ pos' = vocab_start
    /\ count' = 0
    /\ skipped' = 0
    /\ pc' = "loop"
    /\ UNCHANGED <<mm, window, file_open, mm_open, vocab_start, vocab_end,
                   scan_pos, token, ids, ids_at, probed, found>>

\* Line 138, and the entry of find_next_token (line 68) when the loop goes on.
LoopTest ==
    /\ pc = "loop"
    /\ IF count < num_tokens /\ pos < vocab_end
       THEN pc' = "find" /\ scan_pos' = pos
       ELSE pc' = "close" /\ UNCHANGED scan_pos
    /\ UNCHANGED <<mm, num_tokens, skip, window, file_open, mm_open,
                   vocab_start, vocab_end, pos, count, skipped, token, ids,
                   ids_at, probed, found>>

\* find_next_token returns (None, None) and list_tokens breaks (lines 140-141).
ReturnNone ==
    /\ pos' = NoPos
    /\ token' = NoToken
    /\ pc' = "close"
    /\ UNCHANGED <<mm, num_tokens, skip, window, file_open, mm_open,
                   vocab_start, vocab_end, count, skipped, scan_pos, ids,
                   ids_at, probed, found>>

\* Line 70 is false: line 95.
FindExhausted ==
    /\ pc = "find"
    /\ ~(scan_pos < vocab_end - 3)
    /\ ReturnNone

\* Lines 71-73
FindNone ==
    /\ pc = "find"
    /\ scan_pos < vocab_end - 3
    /\ Find(mm, boundary, scan_pos, vocab_end) = -1
    /\ ReturnNone

\* Lines 71-91: a marker is found and its span is returned.
FindAccept ==
    /\ pc = "find"
    /\ scan_pos < vocab_end - 3
    /\ LET p == Find(mm, boundary, scan_pos, vocab_end)
       IN  /\ p # -1
           /\ Accepts(mm, p, vocab_end)
           /\ pos' = p
           /\ token' = TokenContent(mm, p, vocab_end)
           /\ found' = Append(found, [offset |-> p, length |-> Len(token')])
    /\ pc' = "got"
    /\ UNCHANGED <<mm, num_tokens, skip, window, file_open, mm_open,
                   vocab_start, vocab_end, count, skipped, scan_pos, ids,
                   ids_at, probed>>

\* FindReject, retrying from the marker itself.
FindReject_same_place ==
    /\ pc = "find"
    /\ scan_pos < vocab_end - 3
    /\ LET p == Find(mm, boundary, scan_pos, vocab_end)
       IN  /\ p # -1
           /\ ~Accepts(mm, p, vocab_end)
           /\ scan_pos' = p
    /\ UNCHANGED <<mm, num_tokens, skip, window, pc, file_open, mm_open,
                   vocab_start, vocab_end, pos, count, skipped, token, ids,
                   ids_at, probed, found>>

\* Lines 71-93: a marker is found and its span is discarded.
FindReject ==
    /\ pc = "find"
    /\ scan_pos < vocab_end - 3
    /\ LET p == Find(mm, boundary, scan_pos, vocab_end)
       IN  /\ p # -1
           /\ ~Accepts(mm, p, vocab_end)
           /\ scan_pos' = p + 1
    /\ UNCHANGED <<mm, num_tokens, skip, window, pc, file_open, mm_open,
                   vocab_start, vocab_end, pos, count, skipped, token, ids,
                   ids_at, probed, found>>

\* Lines 143-146
SkipToken ==
    /\ pc = "got"
    /\ skipped < skip
    /\ skipped' = skipped + 1
    /\ pos' = pos + Len(token)
    /\ pc' = "loop"
    /\ UNCHANGED <<mm, num_tokens, skip, window, file_open, mm_open,
                   vocab_start, vocab_end, count, scan_pos, token, ids,
                   ids_at, probed, found>>

\* Lines 148-150
Analyze ==
    /\ pc = "got"
    /\ ~(skipped < skip)
    /\ LET r == analyze_token(mm, pos, vocab_start)
       IN  /\ ids' = [k \in 1..Len(r) |-> <<r[k].val, r[k].endian>>]
           /\ ids_at' = [k \in 1..Len(r) |-> r[k].at]
    /\ probed' = UnpackedRange(mm, FirstProbe(pos, vocab_start), pos)
    /\ pc' = "print"
    /\ UNCHANGED <<mm, num_tokens, skip, window, file_open, mm_open,
                   vocab_start, vocab_end, pos, count, skipped, scan_pos,
                   token, found>>

\* Lines 151-161
PrintRow ==
    /\ pc = "print"
    /\ pos' = pos + Len(token)
    /\ count' = count + 1
    /\ pc' = "loop"
    /\ UNCHANGED <<mm, num_tokens, skip, window, file_open, mm_open,
                   vocab_start, vocab_end, skipped, scan_pos, token, ids,
                   ids_at, probed, found>>

\* Lines 163-164, and the end of the with block
Close ==
    /\ pc = "close"
    /\ mm_open' = FALSE
    /\ file_open' = FALSE
    /\ pc' = "done"
    /\ UNCHANGED <<mm, num_tokens, skip, window, vocab_start, vocab_end, pos,
                   count, skipped, scan_pos, token, ids, ids_at, probed, found>>

Next ==
    \/ Open
    \/ Locate
    \/ Window
    \/ LoopTest
    \/ FindExhausted
    \/ FindNone
    \/ FindAccept
    \/ FindReject
    \/ SkipToken
    \/ Analyze
    \/ PrintRow
    \/ Close

Spec == Init /\ [][Next]_vars


(***************************************************************************)
(* The run with a terminal that cannot take a row: print raises at line    *)
(* 158 (an encoding error for the boundary symbol, a closed pipe).  The    *)
(* exception leaves the with block, which closes f; line 164 is not run.   *)
(***************************************************************************)
PrintRaises ==
    /\ pc = "print"
    /\ pc' = "raised"
    /\ file_open' = FALSE
    /\ UNCHANGED <<mm, num_tokens, skip, window, mm_open, vocab_start,
                   vocab_end, pos, count, skipped, scan_pos, token, ids,
                   ids_at, probed, found>>

NextIO == Next \/ PrintRaises

SpecIO == Init /\ [][NextIO]_vars

\* The interpreter runs list_tokens to its end: a step that can be taken is
\* taken.
FairSpec == Spec /\ WF_vars(Next)

(***************************************************************************)
(* find_vocab_section on its own.                                          *)
(***************************************************************************)
MaxLocPieces == 3

\* The four markers, 10 bytes of text, 35 bytes of text before 150 bytes of
\* padding, a run of zero bytes of the threshold's length, one zero byte.
LocatePieces ==
    << special_tokens[1], special_tokens[2], special_tokens[3],
       special_tokens[4], Rep(97, 10), Rep(97, 35) \o Rep(0, 150),
       Rep(0, NullRun), <<0>> >>

InitLocate ==
    /\ mm \in Buffers(LocatePieces, MaxLocPieces)
    /\ num_tokens = 0
    /\ skip = 0
    /\ window = 0
    /\ pc = "locate"
    /\ file_open = TRUE
    /\ mm_open = TRUE
    /\ Unset

SpecLocate == InitLocate /\ [][Locate]_vars

(***************************************************************************)
(* The window arithmetic on its own.                                       *)
(***************************************************************************)
MaxSkip == 4
MaxWindow == 6

InitWindow ==
    /\ mm \in Buffers(FilePieces, 1)
    /\ num_tokens \in 0..MaxCount
    /\ skip \in (-1..MaxSkip) \cup {1000}
    /\ window \in (-1..MaxWindow) \cup {150}
    /\ pc = "window"
    /\ file_open = TRUE
    /\ mm_open = TRUE
    /\ Unset

SpecWindow == InitWindow /\ [][Window]_vars

(***************************************************************************)
(* The scan loop of list_tokens over any region of the file.               *)
(***************************************************************************)
MaxScanPieces == 3
MaxTrim == 2

ScanPieces ==
    << boundary, boundary \o Hello, <<97>>, <<0>>, Rep(1, LookAhead) >>

InitScan ==
    /\ mm \in Buffers(ScanPieces, MaxScanPieces)
    /\ num_tokens = 2 * MaxScanPieces
    /\ skip = 0
    /\ window = 0
    /\ pc = "loop"
    /\ file_open = TRUE
    /\ mm_open = TRUE
    /\ vocab_start \in 0..Min(MaxTrim, Len(mm))
    /\ vocab_end \in Max(vocab_start, Len(mm) - MaxTrim)..Len(mm)
    /\ pos = vocab_start
    /\ count = 0
    /\ skipped = 0
    /\ scan_pos = 0
    /\ token = NoToken
    /\ ids = << >>
    /\ ids_at = << >>
    /\ probed = << >>
    /\ found = << >>

NextScan ==
    \/ LoopTest
    \/ FindExhausted
    \/ FindNone
    \/ FindAccept
    \/ FindReject
    \/ Analyze
    \/ PrintRow
    \/ Close

SpecScan == InitScan /\ [][NextScan]_vars

(***************************************************************************)
(* analyze_token on its own.                                               *)
(***************************************************************************)
MaxInferPieces == 3

InferPieces ==
    << <<1>>, <<0, 1, 0, 0>>, <<0, 1, 1, 0>>, <<159, 134, 1, 0>>,
       <<160, 134, 1, 0>>, boundary >>

InitInfer ==
    /\ mm \in Buffers(InferPieces, MaxInferPieces)
    /\ num_tokens = 1
    /\ skip = 0
    /\ window = 0
    /\ pc = "got"
    /\ file_open = TRUE
    /\ mm_open = TRUE
    /\ pos \in 0..Len(mm)
    /\ vocab_start \in 0..pos
    /\ vocab_end = Len(mm)
    /\ count = 0
    /\ skipped = 0
    /\ scan_pos = pos
    /\ token = NoToken
    /\ ids = << >>
    /\ ids_at = << >>
    /\ probed = << >>
    /\ found = << >>

SpecInfer == InitInfer /\ [][Analyze]_vars


(***************************************************************************)
(* The properties.                                                         *)
(***************************************************************************)
Printable(o) == 32 <= At(mm, o) /\ At(mm, o) <= 126

\* The offsets of the file at which one of the four special markers lies.
SpecialOffsets ==
    { o \in 0..(Len(mm) - 1) :
        \E t \in 1..Len(special_tokens) : MatchAt(mm, special_tokens[t], o) }

\* C1: find_vocab_section returns 0 <= start <= end <= len(buffer); start
\* is the lowest offset at which a special marker occurs, and 0 when none
\* occurs.
C1_RegionStart ==
    pc = "window" =>
        /\ 0 <= vocab_start
        /\ vocab_start <= vocab_end
        /\ vocab_end <= Len(mm)
        /\ SpecialOffsets = {} => vocab_start = 0
        /\ SpecialOffsets # {} =>
              /\ vocab_start \in SpecialOffsets
              /\ \A o \in SpecialOffsets : vocab_start <= o

\* Two markers occur, and the lowest of them, which is not <pad>, lies
\* after the file's start.
C1_Witness ==
    /\ pc = "window"
    /\ Cardinality(SpecialOffsets) >= 2
    /\ vocab_start > 0
    /\ ~MatchAt(mm, special_tokens[1], vocab_start)

\* The scenario of C2: <pad> at offset 10 is the only special marker, the
\* bytes at 15..49 are not zero, the bytes at 50..199 are zero.
PadScenario ==
    /\ Len(mm) >= 200
    /\ SpecialOffsets = {10}
    /\ MatchAt(mm, special_tokens[1], 10)
    /\ \A o \in 15..49 : At(mm, o) # 0
    /\ \A o \in 50..199 : At(mm, o) = 0

\* C2 as stated: in the scenario the region is [10, 151).
C2_AsStated ==
    (pc = "window" /\ PadScenario) => vocab_start = 10 /\ vocab_end = 151

\* C2, amended: in the scenario the region is [10, 150): the run exceeds
\* 100 zero bytes at offset 150, the 101st zero, and that offset is the end.
C2_Region ==
    (pc = "window" /\ PadScenario) => vocab_start = 10 /\ vocab_end = 150

C2_Witness == pc = "window" /\ PadScenario

\* C3: every record find_next_token returns is longer than 3 bytes, starts
\* at or after the cursor it was called with (the region start for the
\* first call, the end of the record before it afterwards) and ends at or
\* before the region end.
C3_RecordInRegion ==
    /\ \A k \in 1..Len(found) :
          /\ found[k].length > 3
          /\ found[k].offset >= vocab_start
          /\ found[k].offset + found[k].length <= vocab_end
          /\ k > 1 => found[k].offset >=
                          found[k - 1].offset + found[k - 1].length
    /\ pc = "got" =>
          /\ Len(found) >= 1
          /\ found[Len(found)].offset = pos
          /\ found[Len(found)].length = Len(token)
          /\ token = Slice(mm, pos, pos + Len(token))

\* A second record that ends exactly at the end of a region lying strictly
\* inside the file.
C3_Witness ==
    /\ pc = "got"
    /\ Len(found) >= 2
    /\ vocab_start > 0
    /\ vocab_end < Len(mm)
    /\ pos + Len(token) = vocab_end

\* The markers that lie wholly in the region.
RegionMarkers ==
    { o \in vocab_start..(vocab_end - 3) : MatchAt(mm, boundary, o) }

\* The end of the span of the marker at o: the next marker of the region,
\* the next null byte, or the region end.
SpanEnd(o) ==
    LET stops == { q \in (o + 3)..(vocab_end - 1) :
                     At(mm, q) = 0 \/ q \in RegionMarkers }
    IN  IF stops = {} THEN vocab_end ELSE SetMin(stops)

\* The spans with length > 3 and a printable byte.
WellFormed ==
    { o \in RegionMarkers :
        /\ SpanEnd(o) - o > 3
        /\ \E q \in (o + 3)..(SpanEnd(o) - 1) : Printable(q) }

\* The spans with a printable byte among the first 100 content bytes.
WellFormedNear ==
    { o \in RegionMarkers :
        \E q \in (o + 3)..(Min(SpanEnd(o), o + 3 + LookAhead) - 1) :
            Printable(q) }

\* The scan has ended because the region holds no further record.
ScanExhausted == pc = "done" /\ count < num_tokens

Increasing ==
    \A k \in 1..(Len(found) - 1) : found[k].offset < found[k + 1].offset

\* C4 as stated: the scan of a region with k well-formed spans yields k
\* records, in strictly increasing offset order.
C4_AsStated ==
    ScanExhausted =>
        /\ Len(found) = Cardinality(WellFormed)
        /\ Increasing

\* C4, amended: the scan yields exactly one record for each span that has a
\* printable byte among its first 100 content bytes, at that span's marker,
\* in strictly increasing offset order; the other markers yield no record.
C4_OneRecordPerSpan ==
    ScanExhausted =>
        /\ Len(found) = Cardinality(WellFormedNear)
        /\ { found[k].offset : k \in 1..Len(found) } = WellFormedNear
        /\ Increasing

\* Two records, and a marker of the region that gave none.
C4_Witness ==
    /\ ScanExhausted
    /\ Len(found) >= 2
    /\ RegionMarkers \ WellFormedNear # {}

\* Where the content of the record at pos ends: at the first null byte or
\* marker, after 100 content bytes, or at the region end.
ContentLimit == Min(vocab_end, pos + 3 + LookAhead)

ContentStop ==
    LET stops == { q \in (pos + 3)..(ContentLimit - 1) :
                     At(mm, q) = 0 \/ MatchAt(mm, boundary, q) }
    IN  IF stops = {} THEN ContentLimit ELSE SetMin(stops)

\* marker + "hello" + a null byte lie at pos, marker and "hello" in the
\* region.
HelloScenario ==
    /\ MatchAt(mm, boundary \o Hello \o <<0>>, pos)
    /\ pos + 8 <= vocab_end

\* C5: a record is the marker followed by the content bytes up to the first
\* null byte or next marker, at most 100 of them and none past the region
\* end; it holds no null byte and no second marker, is at most 103 bytes
\* long, and is 8 bytes long for marker + "hello" + null.
C5_RecordContent ==
    pc = "got" =>
        /\ token = boundary \o
                   [k \in 1..(ContentStop - pos - 3) |-> At(mm, pos + 2 + k)]
        /\ \A k \in 1..Len(token) : token[k] # 0
        /\ \A k \in 2..(Len(token) - 2) : SubSeq(token, k, k + 2) # boundary
        /\ Len(token) <= 103
        /\ HelloScenario => Len(token) = 8

\* The record of the hello scenario has been returned.
C5_Witness == pc = "got" /\ HelloScenario /\ token = boundary \o Hello

\* The four bytes at offset o, least significant first, under an endianness.
Significance(o, endian) ==
    IF endian = "LE"
    THEN <<At(mm, o), At(mm, o + 1), At(mm, o + 2), At(mm, o + 3)>>
    ELSE <<At(mm, o + 3), At(mm, o + 2), At(mm, o + 1), At(mm, o)>>

\* v, a number below 2^24, is the unsigned 32-bit integer at offset o.
Decodes(o, endian, v) ==
    LET w == Significance(o, endian)
    IN  w[4] = 0 /\ v = w[1] + 256 * w[2] + 65536 * w[3]

\* C6: every candidate lies strictly between 0 and 100000; a big-endian
\* candidate differs from the little-endian value at its offset; no offset
\* gives two candidates of equal value.
C6_Candidates ==
    pc = "print" =>
        /\ \A k \in 1..Len(ids) : 0 < ids[k][1] /\ ids[k][1] < 100000
        /\ \A k \in 1..Len(ids) :
              ids[k][2] = "BE" => ~Decodes(ids_at[k], "LE", ids[k][1])
        /\ \A j, k \in 1..Len(ids) :
              (j # k /\ ids_at[j] = ids_at[k]) => ids[j][1] # ids[k][1]

\* A window that reads the same in both byte orders gave its little-endian
\* candidate alone, while another window gave a big-endian one.
C6_Witness ==
    /\ pc = "print"
    /\ \E k \in 1..Len(ids) :
          /\ ids[k][2] = "LE"
          /\ Decodes(ids_at[k], "BE", ids[k][1])
          /\ \A j \in 1..Len(ids) : j # k => ids_at[j] # ids_at[k]
    /\ \E k \in 1..Len(ids) : ids[k][2] = "BE"

Half(w) == CHOOSE h \in 0..w : 2 * h <= w /\ w < 2 * h + 2

\* C7: a window > 0 becomes the count, and the skip becomes
\* max(0, skip - floor(window / 2)): skip 1000 and window 150 give skip 925
\* and count 150; with window 0, count and skip stay as given.
C7_WindowArithmetic ==
    [][ pc = "window" =>
          /\ window > 0 =>
                /\ num_tokens' = window
                /\ skip - Half(window) >= 0 => skip' = skip - Half(window)
                /\ skip - Half(window) < 0 => skip' = 0
          /\ window = 0 => num_tokens' = num_tokens /\ skip' = skip
          /\ (skip = 1000 /\ window = 150) =>
                skip' = 925 /\ num_tokens' = 150 ]_vars

\* The window of 150 around 1000 has been applied.
C7_Witness ==
    /\ pc = "loop"
    /\ window = 150
    /\ skip = 925
    /\ num_tokens = 150

\* C8: when list_tokens has ended, normally or with an exception, the
\* mapping is unmapped and the file is closed.
C8_Released ==
    pc \in {"done", "raised"} => ~mm_open /\ ~file_open

\* C9: the cursor of find_next_token grows with every rejected marker, the
\* cursor of list_tokens grows with every record, the run ends, it ends
\* without an exception for every file that can be mapped, and when the
\* region is exhausted the records found beyond the skip have been shown.
C9_Terminates ==
    /\ [][ /\ (pc = "loop" /\ pc' = "find") => scan_pos' = pos
           /\ (pc = "find" /\ pc' = "find") => scan_pos' > scan_pos
           /\ (pc = "find" /\ pc' = "got") => pos' >= scan_pos
           /\ (pc \in {"got", "print"} /\ pc' = "loop") => pos' > pos ]_vars
    /\ <>(pc \in {"done", "raised"})
    /\ [](pc = "raised" => Len(mm) = 0)
    /\ [](ScanExhausted =>
            /\ skipped = Min(skip, Len(found))
            /\ count = Len(found) - skipped)

\* The region is exhausted after a marker was rejected, a record skipped
\* and a record shown.
C9_Witness ==
    /\ ScanExhausted
    /\ skipped >= 1
    /\ count >= 1
    /\ RegionMarkers \ WellFormedNear # {}

\* C10: analyze_token unpacks exactly the windows [i, i+4) with
\* max(s, p-8) <= i <= p-4, in ascending order, at most 5 of them and none
\* when p - s < 4; each candidate is the value of such a window, the
\* little-endian one before the big-endian one, and every plausible value
\* of a window is a candidate.
C10_Windows ==
    pc = "print" =>
        LET lo == Max(vocab_start, pos - 8)
            n == Max(0, pos - 4 - lo + 1)
        IN  /\ probed = [k \in 1..n |-> lo + k - 1]
            /\ Len(probed) <= 5
            /\ \A k \in 1..Len(probed) :
                  probed[k] >= vocab_start /\ probed[k] + 4 <= pos
            /\ pos - vocab_start < 4 => ids = << >> /\ probed = << >>
            /\ \A k \in 1..Len(ids) :
                  /\ \E j \in 1..Len(probed) : probed[j] = ids_at[k]
                  /\ Decodes(ids_at[k], ids[k][2], ids[k][1])
            /\ \A k \in 1..(Len(ids) - 1) :
                  /\ ids_at[k] <= ids_at[k + 1]
                  /\ ids_at[k] = ids_at[k + 1] =>
                        ids[k][2] = "LE" /\ ids[k + 1][2] = "BE"
            /\ \A j \in 1..Len(probed) : \A e \in {"LE", "BE"} :
                  LET w == Significance(probed[j], e)
                      v == w[1] + 256 * w[2] + 65536 * w[3]
                  IN  (w[4] = 0 /\ 0 < v /\ v < 100000) =>
                         \/ \E k \in 1..Len(ids) :
                               ids_at[k] = probed[j] /\ ids[k] = <<v, e>>
                         \/ e = "BE" /\ Decodes(probed[j], "LE", v)

\* Five windows were unpacked in a region that starts after the file's
\* start, and one of them gave both candidates.
C10_Witness ==
    /\ pc = "print"
    /\ Len(probed) = 5
    /\ vocab_start > 0
    /\ \E k \in 1..(Len(ids) - 1) : ids_at[k] = ids_at[k + 1]

=============================================================================
